---- MODULE Spec2Model ----
(***************************************************************************)
(* Model of simple-vtt's two rolling sample buffers:                       *)
(*   - VoiceModel.audio_buffer, fed by VoiceModel.process_audio_clip       *)
(*     (single-threaded, guarded by a rate and a contiguity check);        *)
(*   - SimpleVoiceToTextApplication.sample_buffer, fed by the sounddevice  *)
(*     callback _onSoundSamplesReceived and copied by the Qt timer slot    *)
(*     _redraw, both under sample_semaphore (a threading.Lock).            *)
(* Samples are float64 values; the model writes them as small integers.    *)
(* A block (numpy array of shape (frames, channels)) is a sequence of      *)
(* frames, each frame a tuple of channel values.                           *)
(***************************************************************************)
EXTENDS Integers, Sequences, FiniteSets, TLC

\* ------------------------------------------------------------------ bounds
\* the sample rate the model runs at: VoiceModel.py:11 sets 8000, scaled down
\* so that the buffers can be enumerated
ScaledSampleHz == 1
AUDIO_PROCESSING_SAMPLE_HZ == ScaledSampleHz
\* VoiceModel.py:10
AUDIO_PROCESSING_WINDOW_SECONDS == 3
\* sample values are 0..MaxSample (0 is also the initial silence value)
MaxSample == 1
\* at most this many samples are handed to VoiceModel's buffer update in a run
MaxTotal == 5
\* constructor arguments of the application range over 1..MaxMicFs, 1..MaxMemorySeconds
MaxMicFs == 2
MaxMemorySeconds == 2
\* frames per stream block in the model: SimpleVoiceToTextApplication.py:56
\* opens the stream with blocksize=3000, scaled down
ScaledBlockSize == 2
blocksize == ScaledBlockSize
\* analysis segments per second of signal: VoiceModel.py:75 and
\* SimpleVoiceToTextApplication.py:168 divide the rate by 20, scaled down with
\* the rates
ScaledSegmentsPerSecond == 1
\* longest clip handed to MainWindow.redraw when the transform is run on its own
MaxWindowLen == 4

\* ------------------------------------------------------------- numpy helpers
Min(a, b) == IF a <= b THEN a ELSE b

SampleValues == 0..MaxSample

\* np.zeros(n)
Zeros(n) == [i \in 1..n |-> 0]

\* a block of n frames with one channel
Blocks(n) == [1..n -> {<<v>> : v \in SampleValues}]

\* indata[:,0] / samples[:,0]: channel 0 of every frame
Column0(block) == [i \in 1..Len(block) |-> block[i][1]]

\* a roll in the opposite direction: index i moves to (i - shift) mod len
RollBackward(buf, shift) ==
    [j \in 1..Len(buf) |-> buf[((j - 1 + shift) % Len(buf)) + 1]]

\* np.roll(buf, shift): the element at 0-based index i moves to (i + shift) mod len
Roll(buf, shift) ==
    [j \in 1..Len(buf) |-> buf[((j - 1 - shift) % Len(buf)) + 1]]

\* buf[0:n] = vals is accepted by numpy when vals has the length of the slice
\* buf[0:n] (which is clipped to the buffer) or broadcasts from length 1;
\* otherwise it raises ValueError ("could not broadcast input array").
SliceLen(buf, n) == Min(n, Len(buf))

CanAssign(buf, n, vals) == Len(vals) = SliceLen(buf, n) \/ Len(vals) = 1

\* an overwrite that stops one entry short of the slice
AssignFrontShort(buf, n, vals) ==
    [j \in 1..Len(buf) |->
        IF j < SliceLen(buf, n)
        THEN (IF Len(vals) = 1 THEN vals[1] ELSE vals[j])
        ELSE buf[j]]

\* buf[0:n] = vals, when accepted
AssignFront(buf, n, vals) ==
    [j \in 1..Len(buf) |->
        IF j <= SliceLen(buf, n)
        THEN (IF Len(vals) = 1 THEN vals[1] ELSE vals[j])
        ELSE buf[j]]

\* the last k elements of s
LastK(s, k) == SubSeq(s, Len(s) - k + 1, Len(s))

RECURSIVE Flatten(_)
Flatten(blocks) ==
    IF blocks = <<>> THEN <<>>
    ELSE Flatten(SubSeq(blocks, 1, Len(blocks) - 1)) \o Column0(blocks[Len(blocks)])

\* ------------------------------------------------------- scipy.signal.stft
\* sps.stft(x, fs=fs, nperseg=fs/20) with scipy's defaults: window='hann',
\* noverlap=nperseg//2, nfft=nperseg, detrend=False, return_onesided=True,
\* boundary='zeros', padded=True.  A coefficient is kept exactly, as an
\* integer combination of the nperseg-th roots of unity: c[e] is the
\* multiplier of exp(2*pi*i*e/nperseg).  It is the returned coefficient times
\* 4*sum(window), a positive constant, so it is zero when every c[e] is zero.
NpersegError == "ValueError: nperseg must be a positive integer"

Ind(b) == IF b THEN 1 ELSE 0

RECURSIVE SeqSum(_)
SeqSum(s) == IF s = <<>> THEN 0 ELSE s[1] + SeqSum(Tail(s))

\* nperseg=fs/20 is a float, which scipy truncates with int()
SegmentLength(fs) == fs \div ScaledSegmentsPerSecond

\* multiplier of the root of unity with exponent e in
\* 4 * hann[n] * exp(-2*pi*i*k*n/N), where 4*hann[n] = 2 - z^n - z^(-n) for the
\* periodic Hann window; get_window returns [1.0] for a window of one point
HannTwiddle(n, k, e, N) ==
    IF N = 1 THEN 4
    ELSE 2 * Ind(e = (-(k * n)) % N)
         - Ind(e = (n - k * n) % N)
         - Ind(e = (-n - k * n) % N)

\* the window added to the segment instead of multiplied into it
CoefWindowAdded(seg, k, N) ==
    [e \in 0..(N - 1) |->
        SeqSum([n \in 1..N |-> seg[n] * Ind(e = (-(k * (n - 1))) % N)
                                 + HannTwiddle(n - 1, k, e, N)])]

\* frequency bin k of the DFT of the windowed segment
Coef(seg, k, N) ==
    [e \in 0..(N - 1) |->
        SeqSum([n \in 1..N |-> seg[n] * HannTwiddle(n - 1, k, e, N)])]

Stft(x, fs) ==
    LET requested == SegmentLength(fs)
    IN  IF Len(x) = 0
        THEN \* an empty input is answered with empty arrays before nperseg is looked at
             [raises |-> "none", nperseg |-> requested, Zxx |-> <<>>]
        ELSE IF requested < 1
        THEN [raises |-> NpersegError, nperseg |-> requested, Zxx |-> <<>>]
        ELSE LET \* nperseg greater than the input length: a UserWarning, and
                 \* nperseg = input length
                 nperseg  == Min(requested, Len(x))
                 noverlap == nperseg \div 2
                 nstep    == nperseg - noverlap
                 \* boundary='zeros': nperseg//2 zeros on either side
                 ext      == Zeros(nperseg \div 2) \o x \o Zeros(nperseg \div 2)
                 \* padded=True: zeros up to a whole number of segments
                 nadd     == ((-(Len(ext) - nperseg)) % nstep) % nperseg
                 padded   == ext \o Zeros(nadd)
                 nseg     == ((Len(padded) - nperseg) \div nstep) + 1
                 Segment(t) == SubSeq(padded, (t - 1) * nstep + 1, (t - 1) * nstep + nperseg)
             IN  [raises  |-> "none",
                  nperseg |-> nperseg,
                  Zxx     |-> [t \in 1..nseg |->
                                 [k \in 0..(nperseg \div 2) |-> Coef(Segment(t), k, nperseg)]]]

\* no transform has been run
NoResult == [raises |-> "not run", nperseg |-> 0, Zxx |-> <<>>]

\* every coefficient of every segment is zero
AllCoefficientsZero(res) ==
    \A t \in DOMAIN res.Zxx : \A k \in DOMAIN res.Zxx[t] :
        \A e \in DOMAIN res.Zxx[t][k] : res.Zxx[t][k][e] = 0

\* --------------------------------------------------------------- the state
VARIABLES
    audio_buffer,      \* VoiceModel.audio_buffer
    raised,            \* what the last process_audio_clip call raised ("none" if it returned)
    last_call,         \* ghost: arguments of the last process_audio_clip call
    accepted,          \* ghost: the blocks that passed both checks, in call order
    stft_out,          \* what stft() last returned, while no block has reached the buffer since
    mic_fs,            \* SimpleVoiceToTextApplication.mic_fs
    memory_seconds,    \* SimpleVoiceToTextApplication.memory_seconds
    sample_buffer,     \* SimpleVoiceToTextApplication.sample_buffer
    sample_semaphore,  \* TRUE when the threading.Lock is held
    pcP,               \* position of the sounddevice callback thread
    indata,            \* the block the running callback was given
    raisedP,           \* what the last callback raised ("none" if it returned)
    pcC,               \* position of the Qt timer slot _redraw
    data,              \* _redraw's local copy of the buffer
    completed,         \* ghost: the buffer as the last completed callback left it
    acquired_view,     \* ghost: value of completed when _redraw last took the lock
    holder,            \* ghost: the thread whose acquire() took the lock ("none" when free)
    data_shares_buffer,\* ghost: data is the very array object bound to sample_buffer
    img                \* what sps.stft returned in MainWindow.redraw

vmVars  == <<audio_buffer, raised, last_call, accepted, stft_out>>
appVars == <<mic_fs, memory_seconds, sample_buffer, sample_semaphore, pcP, indata,
             raisedP, pcC, data, completed, acquired_view, holder,
             data_shares_buffer, img>>
vars    == <<audio_buffer, raised, last_call, accepted, stft_out,
             mic_fs, memory_seconds, sample_buffer, sample_semaphore, pcP, indata,
             raisedP, pcC, data, completed, acquired_view, holder,
             data_shares_buffer, img>>

\* ------------------------------------------------------------- VoiceModel
Capacity == AUDIO_PROCESSING_SAMPLE_HZ * AUDIO_PROCESSING_WINDOW_SECONDS

\* the exceptions process_audio_clip can leave with
UnsupportedRate          == "NotImplementedError: need to supply data in correct frequency"
UnsupportedDiscontinuity == "NotImplementedError: only contiguous data"
BroadcastError           == "ValueError: could not broadcast input array"

\* blocks a caller may pass: up to one frame more than the buffer holds
MaxBlockLen == Capacity + 1
ClipBlocks  == UNION {Blocks(n) : n \in 1..MaxBlockLen}
\* declared rates a caller may pass: the configured one and a different one
Rates       == {AUDIO_PROCESSING_SAMPLE_HZ, AUDIO_PROCESSING_SAMPLE_HZ + 1}

NoCall == [fs |-> AUDIO_PROCESSING_SAMPLE_HZ, contiguous |-> TRUE, len |-> 0]

VoiceModelInit ==
    /\ audio_buffer = Zeros(Capacity)
    /\ raised = "none"
    /\ last_call = NoCall
    /\ accepted = <<>>
    /\ stft_out = NoResult

RateCheckNever(fs) == FALSE

\* if fs != AUDIO_PROCESSING_SAMPLE_HZ
RateCheckFails(fs) == fs # AUDIO_PROCESSING_SAMPLE_HZ

ContiguousCheckNever(contiguous) == FALSE

\* if contiguous is False
ContiguousCheckFails(contiguous) == contiguous = FALSE

\* an update that puts the block in front of the buffer without dropping anything
IngestEffectPrepend(buf, samples) == Column0(samples) \o buf

\* lines 61-64: the roll, then the overwrite of the front; when the overwrite
\* raises, the rolled array has already been bound to the attribute
IngestEffect(buf, samples) ==
    LET rolled == Roll(buf, Len(samples))
    IN  IF CanAssign(rolled, Len(samples), Column0(samples))
        THEN AssignFront(rolled, Len(samples), Column0(samples))
        ELSE rolled

IngestRaises(buf, samples) ==
    IF CanAssign(Roll(buf, Len(samples)), Len(samples), Column0(samples))
    THEN "none"
    ELSE BroadcastError

\* the two checks in the opposite order
process_audio_clip_contiguity_first(samples, fs, contiguous) ==
    /\ last_call' = [fs |-> fs, contiguous |-> contiguous, len |-> Len(samples)]
    /\ IF ContiguousCheckFails(contiguous)
       THEN /\ raised' = UnsupportedDiscontinuity
            /\ UNCHANGED <<audio_buffer, accepted, stft_out>>
       ELSE IF RateCheckFails(fs)
       THEN /\ raised' = UnsupportedRate
            /\ UNCHANGED <<audio_buffer, accepted, stft_out>>
       ELSE /\ Len(Flatten(accepted)) + Len(samples) <= MaxTotal
            /\ accepted' = Append(accepted, samples)
            /\ audio_buffer' = IngestEffect(audio_buffer, samples)
            /\ raised' = IngestRaises(audio_buffer, samples)
            /\ stft_out' = NoResult
    /\ UNCHANGED appVars

process_audio_clip(samples, fs, contiguous) ==
    /\ last_call' = [fs |-> fs, contiguous |-> contiguous, len |-> Len(samples)]
    /\ IF RateCheckFails(fs)
       THEN /\ raised' = UnsupportedRate
            /\ UNCHANGED <<audio_buffer, accepted, stft_out>>
       ELSE IF ContiguousCheckFails(contiguous)
       THEN /\ raised' = UnsupportedDiscontinuity
            /\ UNCHANGED <<audio_buffer, accepted, stft_out>>
       ELSE /\ Len(Flatten(accepted)) + Len(samples) <= MaxTotal
            /\ accepted' = Append(accepted, samples)
            /\ audio_buffer' = IngestEffect(audio_buffer, samples)
            /\ raised' = IngestRaises(audio_buffer, samples)
            /\ stft_out' = NoResult
    /\ UNCHANGED appVars

\* a transform that leaves the analysed window cleared
stft_clearing ==
    /\ stft_out' = Stft(audio_buffer, AUDIO_PROCESSING_SAMPLE_HZ)
    /\ audio_buffer' = Zeros(Len(audio_buffer))
    /\ UNCHANGED <<raised, last_call, accepted>>
    /\ UNCHANGED appVars

\* line 75: return sps.stft(self.audio_buffer, fs=..., nperseg=.../20)
stft ==
    /\ stft_out' = Stft(audio_buffer, AUDIO_PROCESSING_SAMPLE_HZ)
    /\ UNCHANGED <<audio_buffer, raised, last_call, accepted>>
    /\ UNCHANGED appVars

\* ------------------------------------------------------------ application
AppInit ==
    /\ mic_fs \in 1..MaxMicFs
    /\ memory_seconds \in 1..MaxMemorySeconds
    /\ sample_buffer = Zeros(mic_fs * memory_seconds)
    /\ sample_semaphore = FALSE
    /\ pcP = "idle"
    /\ indata = <<>>
    /\ raisedP = "none"
    /\ pcC = "idle"
    /\ data = <<>>
    /\ completed = sample_buffer
    /\ acquired_view = <<>>
    /\ holder = "none"
    /\ data_shares_buffer = FALSE
    /\ img = NoResult

AppIdle ==
    /\ mic_fs = 1
    /\ memory_seconds = 1
    /\ sample_buffer = Zeros(mic_fs * memory_seconds)
    /\ sample_semaphore = FALSE
    /\ pcP = "idle"
    /\ indata = <<>>
    /\ raisedP = "none"
    /\ pcC = "idle"
    /\ data = <<>>
    /\ completed = sample_buffer
    /\ acquired_view = <<>>
    /\ holder = "none"
    /\ data_shares_buffer = FALSE
    /\ img = NoResult

AssertionFailed == "AssertionError"

\* the blocks the stream delivers: exactly blocksize frames each
StreamBlocks == Blocks(blocksize)

AlwaysFree(sem) == TRUE

\* threading.Lock.acquire() returns only when the lock is not held
LockFree(sem) == sem = FALSE

\* the stream invokes the callback; line 77: assert(indata.shape[0] == frames)
onSoundSamplesReceived_call(block, frames) ==
    /\ pcP = "idle"
    /\ IF Len(block) = frames
       THEN /\ indata' = block
            /\ pcP' = "acquire"
            /\ raisedP' = "none"
       ELSE /\ raisedP' = AssertionFailed
            /\ UNCHANGED <<indata, pcP>>
    /\ UNCHANGED <<mic_fs, memory_seconds, sample_buffer, sample_semaphore,
                   pcC, data, completed, acquired_view, holder,
                   data_shares_buffer, img>>
    /\ UNCHANGED vmVars

\* line 80: self.sample_semaphore.acquire()
onSoundSamplesReceived_acquire ==
    /\ pcP = "acquire"
    /\ LockFree(sample_semaphore)
    /\ sample_semaphore' = TRUE
    /\ holder' = "callback"
    /\ pcP' = "roll"
    /\ UNCHANGED <<mic_fs, memory_seconds, sample_buffer, indata, raisedP,
                   pcC, data, completed, acquired_view, data_shares_buffer, img>>
    /\ UNCHANGED vmVars

\* line 85: self.sample_buffer = np.roll(self.sample_buffer, len(indata))
\* np.roll returns a new array, which the attribute is rebound to
onSoundSamplesReceived_roll ==
    /\ pcP = "roll"
    /\ sample_buffer' = Roll(sample_buffer, Len(indata))
    /\ data_shares_buffer' = FALSE
    /\ pcP' = "overwrite"
    /\ UNCHANGED <<mic_fs, memory_seconds, sample_semaphore, indata, raisedP,
                   pcC, data, completed, acquired_view, holder, img>>
    /\ UNCHANGED vmVars

\* line 88: self.sample_buffer[0: len(indata)] = indata[:,0]
\* written in place: whoever holds the same array sees the new values;
\* a ValueError leaves the callback at once: line 91 is not reached
onSoundSamplesReceived_overwrite ==
    /\ pcP = "overwrite"
    /\ IF CanAssign(sample_buffer, Len(indata), Column0(indata))
       THEN /\ sample_buffer' = AssignFront(sample_buffer, Len(indata), Column0(indata))
            /\ data' = IF data_shares_buffer THEN sample_buffer' ELSE data
            /\ pcP' = "release"
            /\ UNCHANGED <<raisedP, indata>>
       ELSE /\ raisedP' = BroadcastError
            /\ pcP' = "idle"
            /\ indata' = <<>>
            /\ UNCHANGED <<sample_buffer, data>>
    /\ UNCHANGED <<mic_fs, memory_seconds, sample_semaphore,
                   pcC, completed, acquired_view, holder, data_shares_buffer, img>>
    /\ UNCHANGED vmVars

\* line 91: self.sample_semaphore.release()
onSoundSamplesReceived_release ==
    /\ pcP = "release"
    /\ sample_semaphore' = FALSE
    /\ holder' = "none"
    /\ pcP' = "idle"
    /\ indata' = <<>>
    /\ completed' = sample_buffer
    /\ UNCHANGED <<mic_fs, memory_seconds, sample_buffer, raisedP,
                   pcC, data, acquired_view, data_shares_buffer, img>>
    /\ UNCHANGED vmVars

\* the redraw timer fires and _redraw is entered
redraw_call ==
    /\ pcC = "idle"
    /\ pcC' = "acquire"
    /\ UNCHANGED <<mic_fs, memory_seconds, sample_buffer, sample_semaphore, pcP,
                   indata, raisedP, data, completed, acquired_view, holder,
                   data_shares_buffer, img>>
    /\ UNCHANGED vmVars

\* _redraw going on to the copy without waiting for the lock
redraw_acquire_unguarded ==
    /\ pcC = "acquire"
    /\ sample_semaphore' = TRUE
    /\ holder' = "redraw"
    /\ pcC' = "copy"
    /\ acquired_view' = completed
    /\ UNCHANGED <<mic_fs, memory_seconds, sample_buffer, pcP, indata, raisedP,
                   data, completed, data_shares_buffer, img>>
    /\ UNCHANGED vmVars

\* line 103: self.sample_semaphore.acquire()
redraw_acquire ==
    /\ pcC = "acquire"
    /\ LockFree(sample_semaphore)
    /\ sample_semaphore' = TRUE
    /\ holder' = "redraw"
    /\ pcC' = "copy"
    /\ acquired_view' = completed
    /\ UNCHANGED <<mic_fs, memory_seconds, sample_buffer, pcP, indata, raisedP,
                   data, completed, data_shares_buffer, img>>
    /\ UNCHANGED vmVars

\* data = self.sample_buffer: a second name for the buffer's array
SameArray(buf) == [contents |-> buf, shares |-> TRUE]

\* self.sample_buffer.copy().astype( float ): a new array with the same
\* values (the buffer is float64 already, so the conversion keeps every value)
CopyAsFloat(buf) == [contents |-> buf, shares |-> FALSE]

\* line 104: data = self.sample_buffer.copy().astype( float )
redraw_copy ==
    /\ pcC = "copy"
    /\ data' = CopyAsFloat(sample_buffer).contents
    /\ data_shares_buffer' = CopyAsFloat(sample_buffer).shares
    /\ pcC' = "release"
    /\ UNCHANGED <<mic_fs, memory_seconds, sample_buffer, sample_semaphore, pcP,
                   indata, raisedP, completed, acquired_view, holder, img>>
    /\ UNCHANGED vmVars

\* _redraw going on to the drawing with the lock still held
redraw_release_late ==
    /\ pcC = "release"
    /\ pcC' = "draw"
    /\ UNCHANGED <<mic_fs, memory_seconds, sample_buffer, sample_semaphore, pcP,
                   indata, raisedP, data, completed, acquired_view, holder,
                   data_shares_buffer, img>>
    /\ UNCHANGED vmVars

\* line 105: self.sample_semaphore.release()
redraw_release ==
    /\ pcC = "release"
    /\ sample_semaphore' = FALSE
    /\ holder' = "none"
    /\ pcC' = "draw"
    /\ UNCHANGED <<mic_fs, memory_seconds, sample_buffer, pcP, indata, raisedP,
                   data, completed, acquired_view, data_shares_buffer, img>>
    /\ UNCHANGED vmVars

\* line 108: self.main_window.redraw( data ); MainWindow.redraw line 168:
\* sps.stft( audio_clip, fs=getapp().mic_fs, nperseg=getapp().mic_fs/20 );
\* then _redraw returns (or is left by the exception stft raised)
redraw_draw ==
    /\ pcC = "draw"
    /\ img' = Stft(data, mic_fs)
    /\ pcC' = "idle"
    /\ UNCHANGED <<mic_fs, memory_seconds, sample_buffer, sample_semaphore, pcP,
                   indata, raisedP, data, completed, acquired_view, holder,
                   data_shares_buffer>>
    /\ UNCHANGED vmVars

\* ----------------------------------------------------------- specifications
InitVoiceModel == VoiceModelInit /\ AppIdle

NextVoiceModel ==
    \/ \E samples \in ClipBlocks, fs \in Rates, contiguous \in BOOLEAN :
          process_audio_clip(samples, fs, contiguous)
    \/ stft

SpecVoiceModel == InitVoiceModel /\ [][NextVoiceModel]_vars

InitApp == VoiceModelInit /\ AppInit

Producer ==
    \/ \E block \in StreamBlocks : onSoundSamplesReceived_call(block, Len(block))
    \/ onSoundSamplesReceived_acquire
    \/ onSoundSamplesReceived_roll
    \/ onSoundSamplesReceived_overwrite
    \/ onSoundSamplesReceived_release

Consumer ==
    \/ redraw_call
    \/ redraw_acquire
    \/ redraw_copy
    \/ redraw_release
    \/ redraw_draw

NextApp == Producer \/ Consumer

SpecApp == InitApp /\ [][NextApp]_vars

\* Every statement of a started callback or timer slot is eventually executed
\* when it can be, and a thread waiting in acquire() gets the lock if the lock
\* is free again and again (no starvation by the other thread); when the
\* stream or the timer next fires is not constrained.
FairSpecApp ==
    /\ SpecApp
    /\ SF_vars(onSoundSamplesReceived_acquire)
    /\ WF_vars(onSoundSamplesReceived_roll)
    /\ WF_vars(onSoundSamplesReceived_overwrite)
    /\ WF_vars(onSoundSamplesReceived_release)
    /\ SF_vars(redraw_acquire)
    /\ WF_vars(redraw_copy)
    /\ WF_vars(redraw_release)
    /\ WF_vars(redraw_draw)

\* MainWindow.redraw run on its own: any clip of up to MaxWindowLen samples,
\* at any of the microphone rates
Windows == UNION {[1..n -> SampleValues] : n \in 0..MaxWindowLen}

InitTransform ==
    /\ VoiceModelInit
    /\ mic_fs \in 1..MaxMicFs
    /\ memory_seconds = 1
    /\ sample_buffer = Zeros(mic_fs * memory_seconds)
    /\ sample_semaphore = FALSE
    /\ pcP = "idle"
    /\ indata = <<>>
    /\ raisedP = "none"
    /\ pcC = "draw"
    /\ data \in Windows
    /\ completed = sample_buffer
    /\ acquired_view = data
    /\ holder = "none"
    /\ data_shares_buffer = FALSE
    /\ img = NoResult

SpecTransform == InitTransform /\ [][redraw_draw]_vars

\* ------------------------------------------------- properties of VoiceModel
\* all samples handed to the buffer update so far, oldest first
received == Flatten(accepted)

\* every block handed to the buffer update fitted in the buffer
AllBlocksFit == \A i \in 1..Len(accepted) : Len(accepted[i]) <= Capacity

\* the buffer a sequence of accepted blocks produces from silence
RECURSIVE Replay(_)
Replay(blocks) ==
    IF blocks = <<>> THEN Zeros(Capacity)
    ELSE IngestEffect(Replay(SubSeq(blocks, 1, Len(blocks) - 1)), blocks[Len(blocks)])

CountOf(s, v) == Cardinality({i \in 1..Len(s) : s[i] = v})

\* C1: after any sequence of ingests at the configured rate with
\* contiguous=true (every block fitting the buffer), the buffer has length
\* capacity and its last min(total, capacity) values are the most recently
\* ingested samples, oldest first.
C1_LastValuesAreMostRecent ==
    AllBlocksFit =>
        /\ Len(audio_buffer) = Capacity
        /\ LastK(audio_buffer, Min(Len(received), Capacity))
              = LastK(received, Min(Len(received), Capacity))

\* C2: from the all-zero buffer, blocks of total length L <= capacity leave
\* capacity - L leading zeros followed by the blocks' concatenation.
C2_ZerosThenConcatenation ==
    Len(received) <= Capacity =>
        audio_buffer = Zeros(Capacity - Len(received)) \o received

\* C3: when every block fits, the buffer holds, as a multiset, the most
\* recent capacity samples received (padded with the initial zeros).
C3_MultisetOfMostRecent ==
    AllBlocksFit =>
        \A v \in SampleValues :
            CountOf(audio_buffer, v)
              = CountOf(LastK(Zeros(Capacity) \o received, Capacity), v)

\* C8: a call with a declared rate other than the configured one raises
\* UnsupportedRate and changes nothing, from any buffer state; the buffer is
\* always what the accepted blocks alone produce, so a later valid ingest
\* behaves as if the rejected call had never been made.
C8_RateMismatchRejected ==
    [][/\ (last_call'.fs # AUDIO_PROCESSING_SAMPLE_HZ =>
             /\ raised' = UnsupportedRate
             /\ audio_buffer' = audio_buffer
             /\ accepted' = accepted)
       /\ audio_buffer' = Replay(accepted')]_vars

C8_Witness ==
    /\ raised = UnsupportedRate
    /\ last_call.fs # AUDIO_PROCESSING_SAMPLE_HZ
    /\ audio_buffer # Zeros(Capacity)

\* C9: a call at the configured rate with contiguous = false raises
\* UnsupportedDiscontinuity, and the block is dropped: the buffer and the
\* samples it has taken in are unchanged, from any buffer state.
C9_DiscontinuityRejected ==
    [][(last_call'.fs = AUDIO_PROCESSING_SAMPLE_HZ /\ last_call'.contiguous = FALSE) =>
            /\ raised' = UnsupportedDiscontinuity
            /\ audio_buffer' = audio_buffer
            /\ accepted' = accepted]_vars

C9_Witness ==
    /\ raised = UnsupportedDiscontinuity
    /\ last_call.fs = AUDIO_PROCESSING_SAMPLE_HZ
    /\ last_call.contiguous = FALSE
    /\ audio_buffer # Zeros(Capacity)

\* C10: a block longer than capacity is ingested without error and leaves
\* exactly its last capacity samples in the buffer, in order.
C10_OversizeBlockKeepsTail ==
    (/\ last_call.fs = AUDIO_PROCESSING_SAMPLE_HZ
     /\ last_call.contiguous = TRUE
     /\ last_call.len > Capacity) =>
        /\ raised = "none"
        /\ audio_buffer = LastK(Column0(accepted[Len(accepted)]), Capacity)

\* the last call passed both checks and reached the buffer update
LastCallAccepted ==
    /\ last_call.len > 0
    /\ last_call.fs = AUDIO_PROCESSING_SAMPLE_HZ
    /\ last_call.contiguous = TRUE

\* the block of the last call that reached the buffer update
LastBlock == Column0(accepted[Len(accepted)])

\* C11: ingesting one block of exactly capacity samples makes the buffer
\* equal that block, element for element in input order, whatever it held.
C11_FullBlockReplacesBuffer ==
    (LastCallAccepted /\ last_call.len = Capacity) =>
        /\ raised = "none"
        /\ audio_buffer = LastBlock

C11_Witness ==
    /\ LastCallAccepted
    /\ last_call.len = Capacity
    /\ Len(accepted) >= 2
    /\ audio_buffer = LastBlock
    /\ \E i \in 1..Capacity : \E j \in 1..Capacity : audio_buffer[i] # audio_buffer[j]

\* C13: the buffer's length is its construction-time capacity in every
\* reachable state, whatever calls were accepted, rejected or failed.
C13_LengthIsCapacity ==
    Len(audio_buffer) = AUDIO_PROCESSING_SAMPLE_HZ * AUDIO_PROCESSING_WINDOW_SECONDS

C13_Witness ==
    /\ Len(accepted) >= 2
    /\ raised = BroadcastError
    /\ Len(audio_buffer) = AUDIO_PROCESSING_SAMPLE_HZ * AUDIO_PROCESSING_WINDOW_SECONDS

\* C18: a successful ingest of n <= capacity samples writes the block, in
\* input order, to positions 0..n-1 and moves the previous contents of
\* positions 0..capacity-n-1 to positions n..capacity-1 in the same order;
\* the previous last n entries are the ones lost.
C18_BlockAtFrontOldShifted ==
    [][(/\ last_call'.fs = AUDIO_PROCESSING_SAMPLE_HZ
        /\ last_call'.contiguous = TRUE
        /\ last_call'.len <= Capacity
        /\ accepted' # accepted) =>
            /\ raised' = "none"
            /\ audio_buffer' = Column0(accepted'[Len(accepted')])
                                  \o SubSeq(audio_buffer, 1, Capacity - last_call'.len)]_vars

C18_Witness ==
    /\ LastCallAccepted
    /\ last_call.len < Capacity
    /\ Len(accepted) >= 2
    /\ raised = "none"
    /\ audio_buffer[1] = 0
    /\ audio_buffer[last_call.len + 1] = 1
    /\ audio_buffer[Capacity] = 0

\* C19: the rate check comes first: a call with a mismatched rate and
\* contiguous = false raises UnsupportedRate, not UnsupportedDiscontinuity,
\* and the buffer is unchanged.
C19_RateCheckFirst ==
    [][(last_call'.fs # AUDIO_PROCESSING_SAMPLE_HZ /\ last_call'.contiguous = FALSE) =>
            /\ raised' = UnsupportedRate
            /\ raised' # UnsupportedDiscontinuity
            /\ audio_buffer' = audio_buffer]_vars

C19_Witness ==
    /\ last_call.fs # AUDIO_PROCESSING_SAMPLE_HZ
    /\ last_call.contiguous = FALSE
    /\ raised = UnsupportedRate
    /\ audio_buffer # Zeros(Capacity)

\* C17: stft is pure: it leaves the buffer's contents unchanged, and the
\* result it returned is the one a further call returns as long as no block
\* has reached the buffer in between.
C17_StftIsPure ==
    /\ [][(stft_out' # NoResult /\ stft_out' # stft_out) =>
                audio_buffer' = audio_buffer]_vars
    /\ [](stft_out # NoResult =>
                stft_out = Stft(audio_buffer, AUDIO_PROCESSING_SAMPLE_HZ))

C17_Witness ==
    /\ stft_out # NoResult
    /\ stft_out.raises = "none"
    /\ audio_buffer # Zeros(Capacity)
    /\ ~AllCoefficientsZero(stft_out)
    /\ raised = UnsupportedDiscontinuity

\* ------------------------------------------- properties of the application
\* the callback is between its acquire and the end of its release
ProducerInBuffer == pcP \in {"roll", "overwrite", "release"}

\* _redraw is between its acquire and the end of its release
ConsumerInBuffer == pcC \in {"copy", "release"}

\* C4: ingest and snapshot are mutually exclusive: the callback's
\* shift-and-overwrite and _redraw's copy are never both in progress.
C4_MutualExclusion == ~(ProducerInBuffer /\ ConsumerInBuffer)

C4_Witness ==
    /\ pcP = "overwrite"
    /\ pcC = "acquire"
    /\ sample_semaphore = TRUE

\* C5: a snapshot is the buffer as left by exactly the callbacks that had
\* completed when _redraw took the lock: the buffer it copies is never a
\* half-updated one, and nothing completed is missing from it.
C5_SnapshotIsCompletedState ==
    /\ (pcC = "copy" => sample_buffer = completed /\ acquired_view = completed)
    /\ (pcC # "copy" => data = acquired_view)

C5_Witness ==
    /\ pcC = "draw"
    /\ data # Zeros(Len(data))
    /\ completed # data
    /\ pcP = "overwrite"

\* C6: the lock is released on every exit path of the callback and of
\* _redraw: whenever neither is executing, the lock is free.
C6_LockFreeWhenIdle ==
    (pcP = "idle" /\ pcC = "idle") => sample_semaphore = FALSE

\* C7: every started callback and every started _redraw eventually returns.
C7_EveryCallReturns ==
    /\ (pcP # "idle") ~> (pcP = "idle")
    /\ (pcC # "idle") ~> (pcC = "idle")

\* C12: a snapshot is a point-in-time copy: it shares no storage with the
\* live buffer, and its contents change only when _redraw takes the next one.
C12_SnapshotIsACopy ==
    [][/\ ~data_shares_buffer'
       /\ (data' # data => (pcC = "copy" /\ pcC' = "release"))]_vars

C12_Witness ==
    /\ pcC = "draw"
    /\ pcP = "idle"
    /\ ~data_shares_buffer
    /\ data # Zeros(Len(data))
    /\ sample_buffer = completed
    /\ sample_buffer # data

\* C14: the lock is never held across the transform: while _redraw is in
\* MainWindow.redraw it does not hold the lock, so it holds it only between
\* its acquire and its release, around the single copy.
C14_NoLockAcrossTransform ==
    /\ (pcC = "draw" => holder # "redraw")
    /\ (holder = "redraw" => pcC \in {"copy", "release"})

C14_Witness ==
    /\ pcC = "draw"
    /\ pcP = "roll"
    /\ holder = "callback"
    /\ sample_semaphore = TRUE

\* ---------------------------------------------- properties of the transform
\* MainWindow.redraw has run sps.stft on the clip
TransformDone == pcC = "idle" /\ img # NoResult

\* C15: the transform fails on a window that is empty or shorter than the
\* segment length, instead of padding it or shortening the segment.
C15_ShortWindowFails ==
    (TransformDone /\ (Len(data) = 0 \/ Len(data) < SegmentLength(mic_fs))) =>
        img.raises # "none"

\* C16: the transform of an all-zero window, when it returns a result, has
\* a zero coefficient at every frequency bin of every segment.
C16_ZeroWindowZeroSpectrum ==
    (TransformDone /\ data = Zeros(Len(data)) /\ img.raises = "none") =>
        AllCoefficientsZero(img)

C16_Witness ==
    /\ TransformDone
    /\ Len(data) = MaxWindowLen
    /\ data = Zeros(Len(data))
    /\ img.raises = "none"
    /\ Len(img.Zxx) >= 2
    /\ AllCoefficientsZero(img)

====
